---- MODULE Spec2Model ----
(***************************************************************************)
(* A model of rclonedecrypt (src/src/decrypt.rs, src/src/main.rs): the     *)
(* nonce increment rules, the decrypt_file / decrypt_bytes engines and the *)
(* salt and password search built on them.                                 *)
(*                                                                         *)
(* Byte strings (passwords, salts, nonces, plaintexts) are sequences of    *)
(* integers 0..255. The cryptographic primitives are modelled              *)
(* symbolically: scrypt is collision free, and a secretbox authenticates   *)
(* under exactly the key and nonce it was sealed with.                     *)
(***************************************************************************)
EXTENDS Integers, Sequences, FiniteSets, TLC

VARIABLES
    \* ---- the nonce rules applied on their own (SpecNonce)
    n_rule,      \* which increment function the run applies
    n_base,      \* the nonce the run started from
    n_prev,      \* the nonce before the last increment
    n_cur,       \* the nonce after the last increment
    n_steps,     \* how many increments were applied
    \* ---- the call made on the program (Spec)
    entry,             \* the public function called
    input,             \* the bytes of the input file / encrypted_data
    passwords,         \* the list given to try_multiple_passwords
    user_salt,         \* the salt String of the command line (main.rs 22)
    self_password,     \* RcloneDecryptor.password of the receiver
    self_salt,         \* RcloneDecryptor.salt of the receiver
    pc,                \* position in the code
    result,            \* what the call returned ("none" while it runs)
    found_password,    \* the String try_multiple_passwords returned
    \* ---- try_multiple_passwords, auto_decrypt, try_decrypt_with_variations
    pw_idx,            \* index of the password being tried (1-based)
    variation,         \* number of the salt variation being tried
    auto_result,       \* what the last auto_decrypt call returned
    \* ---- decrypt_file
    d_password,        \* password of the decryptor decrypt_file runs on
    d_salt,            \* salt of the decryptor decrypt_file runs on
    base_nonce,
    key,
    current_pos,
    chunk_nonce,
    found_valid_chunk,
    output,            \* bytes written to the output file
    df_result,         \* what the last decrypt_file call returned
    db_out,            \* the Vec decrypt_bytes returned
    \* ---- history, read by the properties only
    opens,             \* secretbox open calls of the current decrypt run
    kdf_calls,         \* scrypt calls made since the call started
    attempts,          \* the decrypt_file calls made: <<password, salt>>
    auto_calls         \* the passwords auto_decrypt was called with

nonceVars == <<n_rule, n_base, n_prev, n_cur, n_steps>>

callVars == <<entry, input, passwords, user_salt>>

searchVars == <<self_password, self_salt, pw_idx, variation, auto_result,
                found_password, auto_calls>>

engineVars == <<d_password, d_salt, base_nonce, key, current_pos, chunk_nonce,
                found_valid_chunk, output, df_result, db_out, opens, kdf_calls,
                attempts>>

vars == <<nonceVars, callVars, searchVars, engineVars, pc, result>>

(***************************************************************************)
(* Program constants                                                       *)
(***************************************************************************)
NONCE_SIZE == 24

\* Steps of the longest run of increments (the 256-step carry of byte 0).
MaxSteps == 256
\* Steps applied to the nonces that are not followed for a long run.
ShortSteps == 2

(***************************************************************************)
(* increment_nonce: decrypt.rs 19-29. Index i of the code is i+1 here.     *)
(***************************************************************************)
RECURSIVE IncLoopLE(_, _)
IncLoopLE(nonce, i) ==
    IF i > 24 THEN nonce
    ELSE IF nonce[i] = 255
         THEN IncLoopLE([nonce EXCEPT ![i] = 0], i + 1)
         ELSE [nonce EXCEPT ![i] = nonce[i] + 1]

\* bug: the carry is lost (only byte 0 is ever touched)
increment_nonce_nocarry(nonce) == [nonce EXCEPT ![1] = (nonce[1] + 1) % 256]

increment_nonce(nonce) == IncLoopLE(nonce, 1)

(***************************************************************************)
(* increment_nonce_be: decrypt.rs 32-41, (0..24).rev()                     *)
(***************************************************************************)
RECURSIVE IncLoopBE(_, _)
IncLoopBE(nonce, i) ==
    IF i < 1 THEN nonce
    ELSE IF nonce[i] = 255
         THEN IncLoopBE([nonce EXCEPT ![i] = 0], i - 1)
         ELSE [nonce EXCEPT ![i] = nonce[i] + 1]

\* bug: the loop stops one byte early, so a carry out of index 1 never
\* reaches index 0
increment_nonce_be_short(nonce) ==
    IF \A j \in 2..24 : nonce[j] = 255
    THEN [j \in 1..24 |-> IF j = 1 THEN nonce[1] ELSE 0]
    ELSE IncLoopBE(nonce, 24)

increment_nonce_be(nonce) == IncLoopBE(nonce, 24)

(***************************************************************************)
(* increment_nonce_64bit: decrypt.rs 44-53. A u64 is four 16-bit limbs,    *)
(* least significant first (the model's integers are 32 bits wide).        *)
(***************************************************************************)
u64_from_le_bytes(b) == [k \in 1..4 |-> b[2 * k - 1] + 256 * b[2 * k]]

RECURSIVE AddLimb(_, _, _)
AddLimb(c, k, carry) ==
    IF k > 4 THEN c     \* the carry out of the top limb is dropped
    ELSE LET s == c[k] + carry
         IN  AddLimb([c EXCEPT ![k] = s % 65536], k + 1, s \div 65536)

u64_wrapping_add_1(c) == AddLimb(c, 1, 1)

u64_to_le_bytes(c) ==
    [j \in 1..8 |-> IF j % 2 = 1 THEN c[(j + 1) \div 2] % 256
                                 ELSE c[j \div 2] \div 256]

\* bug: the counter is written back with the carry running on into the
\* first 16 bytes (a big-endian style increment of the whole array)
increment_nonce_64bit_spill(nonce) == IncLoopBE(nonce, 24)

increment_nonce_64bit(nonce) ==
    LET counter == u64_wrapping_add_1(
                       u64_from_le_bytes([j \in 1..8 |-> nonce[16 + j]]))
        counter_bytes == u64_to_le_bytes(counter)
    IN  [j \in 1..24 |-> IF j >= 17 THEN counter_bytes[j - 16] ELSE nonce[j]]

Advance(rule, nonce) ==
    CASE rule = "le"  -> increment_nonce(nonce)
      [] rule = "be"  -> increment_nonce_be(nonce)
      [] rule = "c64" -> increment_nonce_64bit(nonce)

NonceRules == {"le", "be", "c64"}

(***************************************************************************)
(* Program constants of the engine                                         *)
(***************************************************************************)
\* RCLONE_MAGIC = b"RCLONE\x00\x00"
RCLONE_MAGIC == <<82, 67, 76, 79, 78, 69, 0, 0>>

\* CHUNK_SIZE is 65536 in the program; the model scales the payload of a
\* chunk down and keeps every comparison the code makes with it.
CHUNK_SIZE == 2

\* The 16 bytes of the Poly1305 tag: the literal 16 of decrypt_file.
TAG_SIZE == 16

\* 8 + NONCE_SIZE: the header read by decrypt_bytes and auto_decrypt
HEADER_SIZE == 8 + NONCE_SIZE

\* Params::new(14, SCRYPT_R, SCRYPT_P, KEY_SIZE)
CanonicalParams == <<14, 8, 1>>

Min(a, b) == IF a < b THEN a ELSE b

(***************************************************************************)
(* Bytes of a file. A byte is <<key, nonce, j, x>>: a byte of a secretbox  *)
(* sealed under key and nonce (j >= 1 its position in the box, x the       *)
(* plaintext it depends on), or a plain byte (j = 0, x = <<value>>).       *)
(***************************************************************************)
NoKey == <<>>

PlainByte(b) == <<NoKey, <<>>, 0, <<b>>>>

Plain(bytes) == [i \in 1..Len(bytes) |-> PlainByte(bytes[i])]

ByteValue(cell) == cell[4][1]

ByteValues(cells) == [i \in 1..Len(cells) |-> ByteValue(cells[i])]

(***************************************************************************)
(* scrypt(password, salt, params): deterministic and collision free.       *)
(***************************************************************************)
scrypt(password, salt, params) == <<password, salt, params>>

(***************************************************************************)
(* NaCl secretbox (XSalsa20 + Poly1305): the box of a plaintext is a       *)
(* 16-byte tag, which depends on the whole plaintext, followed by one      *)
(* ciphertext byte per plaintext byte.                                     *)
(***************************************************************************)
secretbox_seal(plaintext, nonce, k) ==
    [j \in 1..(TAG_SIZE + Len(plaintext)) |->
        <<k, nonce, j,
          IF j <= TAG_SIZE THEN plaintext ELSE <<plaintext[j - TAG_SIZE]>> >>]

Failure == [ok |-> FALSE, data |-> <<>>]

\* sodiumoxide::crypto::secretbox::open and XSalsa20Poly1305::decrypt
secretbox_open(c, nonce, k) ==
    IF /\ Len(c) >= TAG_SIZE
       /\ c[1][3] = 1
       /\ c = secretbox_seal(c[1][4], nonce, k)
    THEN [ok |-> TRUE, data |-> c[1][4]]
    ELSE Failure

(***************************************************************************)
(* try_algorithm_variations: decrypt.rs 503-548.  A private function that  *)
(* no function of the program calls.                                       *)
(***************************************************************************)
\* 506-513: (log_n, r, p)
scrypt_variations ==
    << <<13, 8, 1>>, <<14, 8, 1>>, <<15, 8, 1>>,
       <<14, 4, 1>>, <<14, 16, 1>>, <<14, 8, 2>> >>

\* 515-547: the first triple of the list whose key opens the ciphertext
try_algorithm_variations(password, salt, ciphertext, nonce) ==
    LET opened(i) == secretbox_open(ciphertext, nonce,
                                    scrypt(password, salt, scrypt_variations[i]))
        hits == {i \in 1..Len(scrypt_variations) : opened(i).ok}
    IN  IF hits = {}
        THEN Failure
        ELSE opened(CHOOSE i \in hits : \A j \in hits : i <= j)

(***************************************************************************)
(* The container format (spec section 6): magic, base nonce, then the      *)
(* plaintext sealed chunk by chunk, the nonce advanced from one chunk to   *)
(* the next. The program has no write path; this is the writer its inputs  *)
(* come from.                                                              *)
(***************************************************************************)
RECURSIVE SealChunks(_, _, _, _)
SealChunks(plaintext, nonce, k, rule) ==
    IF plaintext = <<>> THEN <<>>
    ELSE LET n == Min(CHUNK_SIZE, Len(plaintext))
         IN  secretbox_seal(SubSeq(plaintext, 1, n), nonce, k)
             \o SealChunks(SubSeq(plaintext, n + 1, Len(plaintext)),
                           Advance(rule, nonce), k, rule)

Header(nonce) == Plain(RCLONE_MAGIC) \o Plain(nonce)

Container(plaintext, password, salt, rule, nonce) ==
    Header(nonce)
    \o SealChunks(plaintext, nonce, scrypt(password, salt, CanonicalParams), rule)

\* A container whose key was derived with other cost parameters.
ContainerWith(plaintext, password, salt, params, nonce) ==
    Header(nonce)
    \o SealChunks(plaintext, nonce, scrypt(password, salt, params), "le")

\* An unchunked container: the whole plaintext in one box.
Unchunked(plaintext, password, salt, nonce) ==
    Header(nonce)
    \o secretbox_seal(plaintext, nonce, scrypt(password, salt, CanonicalParams))

(***************************************************************************)
(* The nonces the increment rules are applied to: a run lo..hi of 0xFF     *)
(* bytes in a nonce otherwise filled with one byte value.                  *)
(***************************************************************************)
RunNonce(lo, hi, fill) == [j \in 1..NONCE_SIZE |-> IF lo <= j /\ j <= hi THEN 255 ELSE fill]

SampleNonces ==
    { RunNonce(lo, hi, fill) :
        lo \in {1, 2, 16, 17, 18, 23, 24}, hi \in {0, 1, 2, 15, 16, 17, 23, 24},
        fill \in {0, 7, 254} }

\* The nonces followed for MaxSteps increments.
LongRunNonces ==
    { RunNonce(2, 0, 0), RunNonce(2, 2, 0), RunNonce(2, 24, 0), RunNonce(2, 2, 7),
      RunNonce(1, 23, 0), RunNonce(17, 16, 0), RunNonce(18, 24, 0) }

StepLimit(nonce) == IF nonce \in LongRunNonces THEN MaxSteps ELSE ShortSteps

(***************************************************************************)
(* RcloneDecryptor::new: decrypt.rs 57-101.  A String is the sequence of   *)
(* its character codes; the strings of the model are ASCII, so a String    *)
(* and its as_bytes() coincide.                                            *)
(***************************************************************************)
\* SALT_SIZE: usize = 8
SALT_SIZE == 8

\* char::is_ascii_alphanumeric
is_ascii_alphanumeric(c) == c \in 48..57 \/ c \in 65..90 \/ c \in 97..122

\* is_likely_base64: decrypt.rs 57-67 ('+' is 43, '/' is 47, '=' is 61)
is_likely_base64(s) ==
    IF s = <<>> \/ Len(s) > 100
    THEN FALSE
    ELSE \A i \in 1..Len(s) :
            is_ascii_alphanumeric(s[i]) \/ s[i] = 43 \/ s[i] = 47 \/ s[i] = 61

\* str::starts_with
starts_with(s, prefix) ==
    Len(s) >= Len(prefix) /\ SubSeq(s, 1, Len(prefix)) = prefix

\* The value of a hex digit, -1 for any other character.
HexVal(c) ==
    IF c \in 48..57 THEN c - 48
    ELSE IF c \in 97..102 THEN c - 87
    ELSE IF c \in 65..70 THEN c - 55
    ELSE -1

\* bug: the two digits of a byte are taken in the wrong order
hex_decode_swapped(s) ==
    IF Len(s) % 2 # 0 \/ \E i \in 1..Len(s) : HexVal(s[i]) < 0
    THEN [ok |-> FALSE, bytes |-> <<>>]
    ELSE [ok |-> TRUE,
          bytes |-> [i \in 1..(Len(s) \div 2) |->
                        16 * HexVal(s[2 * i]) + HexVal(s[2 * i - 1])]]

\* hex::decode: an odd length or a character that is no hex digit is an
\* error, otherwise each pair of digits is one byte, high digit first.
hex_decode(s) ==
    IF Len(s) % 2 # 0 \/ \E i \in 1..Len(s) : HexVal(s[i]) < 0
    THEN [ok |-> FALSE, bytes |-> <<>>]
    ELSE [ok |-> TRUE,
          bytes |-> [i \in 1..(Len(s) \div 2) |->
                        16 * HexVal(s[2 * i - 1]) + HexVal(s[2 * i])]]

\* The value of a symbol of the standard base64 alphabet, -1 otherwise.
B64Val(c) ==
    IF c \in 65..90 THEN c - 65
    ELSE IF c \in 97..122 THEN c - 71
    ELSE IF c \in 48..57 THEN c + 4
    ELSE IF c = 43 THEN 62
    ELSE IF c = 47 THEN 63
    ELSE -1

\* The number of '=' that end the string, two at most.
PadLen(s) ==
    IF Len(s) >= 2 /\ s[Len(s)] = 61 /\ s[Len(s) - 1] = 61 THEN 2
    ELSE IF Len(s) >= 1 /\ s[Len(s)] = 61 THEN 1
    ELSE 0

\* The bytes a run of 6-bit values spells, the bits of an incomplete last
\* byte dropped.
SextetsToBytes(v) ==
    [k \in 1..((6 * Len(v)) \div 8) |->
        LET o == 8 * (k - 1)
            i == (o \div 6) + 1
            r == o % 6
        IN  ((v[i] * 64 + v[i + 1]) \div (2 ^ (4 - r))) % 256]

\* general_purpose::STANDARD.decode: the padded length is a multiple of 4,
\* '=' stands only at the end, every other character is of the alphabet and
\* the bits of the last symbol that belong to no byte are zero.
base64_decode(s) ==
    LET sym == SubSeq(s, 1, Len(s) - PadLen(s))
        v   == [i \in 1..Len(sym) |-> B64Val(sym[i])]
        spare == (6 * Len(sym)) % 8
    IN  IF /\ Len(s) % 4 = 0
           /\ \A i \in 1..Len(v) : v[i] >= 0
           /\ Len(sym) > 0 => v[Len(sym)] % (2 ^ spare) = 0
        THEN [ok |-> TRUE, bytes |-> SextetsToBytes(v)]
        ELSE [ok |-> FALSE, bytes |-> <<>>]

NewOk(bytes) == [result |-> "Ok", salt |-> bytes]

\* bug: base64 is tried whatever the length of the string
new_any_length(salt) ==
    IF salt = <<>>
    THEN NewOk(<<>>)
    ELSE IF starts_with(salt, <<48, 120>>) \/ starts_with(salt, <<48, 88>>)
    THEN LET h == hex_decode(SubSeq(salt, 3, Len(salt)))
         IN  IF h.ok THEN NewOk(h.bytes) ELSE [result |-> "Hex", salt |-> <<>>]
    ELSE IF is_likely_base64(salt)
    THEN LET d == base64_decode(salt)
         IN  IF d.ok THEN NewOk(d.bytes) ELSE NewOk(salt)
    ELSE NewOk(salt)

\* RcloneDecryptor::new: decrypt.rs 75-101 ("0x" is 48 120, "0X" is 48 88)
new(salt) ==
    IF salt = <<>>
    THEN NewOk(<<>>)
    ELSE IF starts_with(salt, <<48, 120>>) \/ starts_with(salt, <<48, 88>>)
    THEN LET h == hex_decode(SubSeq(salt, 3, Len(salt)))
         IN  IF h.ok THEN NewOk(h.bytes) ELSE [result |-> "Hex", salt |-> <<>>]
    ELSE IF is_likely_base64(salt) /\ Len(salt) > 8
    THEN LET d == base64_decode(salt)
         IN  IF d.ok THEN NewOk(d.bytes) ELSE NewOk(salt)
    ELSE NewOk(salt)

(***************************************************************************)
(* The calls the model makes on the program                                *)
(***************************************************************************)
\* Length of the longest plaintext sealed into a container.
MaxPlainLen == 7
\* Length of the longest password list given to try_multiple_passwords.
MaxPasswords == 3

Plaintext(n) == [i \in 1..n |-> 64 + i]

PwA == <<97>>
PwB == <<98>>
PwC == <<99>>
SaltU == <<117>>
SaltX == <<120>>

\* b"rclone", b"default", b"", b"salt": decrypt.rs 409-414
common_salts ==
    << <<114, 99, 108, 111, 110, 101>>,
       <<100, 101, 102, 97, 117, 108, 116>>,
       <<>>,
       <<115, 97, 108, 116>> >>

Nonce0 == RunNonce(1, 0, 0)
NonceFF == RunNonce(1, NONCE_SIZE, 0)
NonceC == RunNonce(1, 1, 3)
BaseNonces == {Nonce0, NonceFF, NonceC}

\* Well-formed containers, chunked under each nonce rule, and unchunked.
GoodFiles ==
    { Container(Plaintext(n), PwA, s, rule, nonce) :
        n \in 0..MaxPlainLen, s \in {<<>>, SaltU}, rule \in NonceRules,
        nonce \in BaseNonces }
    \cup { Unchunked(Plaintext(n), PwA, <<>>, nonce) :
             n \in {0, 1, CHUNK_SIZE + 1, MaxPlainLen}, nonce \in {Nonce0, NonceC} }

\* Damaged inputs: a wrong magic, a cut, bytes appended, a chunk overwritten.
BadMagic(f) == [f EXCEPT ![1] = PlainByte(83)]
Truncate(f, n) == SubSeq(f, 1, Min(n, Len(f)))
Junk(n) == [i \in 1..n |-> PlainByte(0)]
ChunkStart(i) == HEADER_SIZE + (i - 1) * (CHUNK_SIZE + TAG_SIZE)
CorruptChunk(f, i) ==
    IF ChunkStart(i) + 1 <= Len(f)
    THEN [f EXCEPT ![ChunkStart(i) + 1] = PlainByte(0)]
    ELSE f

FullFiles ==
    { Container(Plaintext(MaxPlainLen), PwA, <<>>, rule, Nonce0) : rule \in NonceRules }

CutPoints ==
    {0, 5, 8, 20, 31, 32, 37, 32 + TAG_SIZE - 1, 32 + TAG_SIZE,
     32 + TAG_SIZE + CHUNK_SIZE + 3, 32 + 2 * (TAG_SIZE + CHUNK_SIZE)}

DamagedFiles ==
    { Truncate(f, n) : f \in FullFiles, n \in CutPoints }
    \cup { BadMagic(Truncate(f, n)) : f \in FullFiles, n \in CutPoints \ {0} }
    \cup { BadMagic(f) : f \in FullFiles }
    \cup { f \o Junk(n) : f \in FullFiles, n \in {3, TAG_SIZE, TAG_SIZE + 4} }
    \cup { CorruptChunk(f, i) : f \in FullFiles, i \in 1..4 }

\* Containers for the salt search: sealed under each salt the search tries,
\* and under one it does not.
SearchFiles ==
    { Container(Plaintext(n), PwA, s, "le", Nonce0) :
        n \in {1, CHUNK_SIZE + 1},
        s \in {<<>>, PwA, SaltU, SaltX, common_salts[1], common_salts[2],
               common_salts[4]} }

\* Containers whose key was derived with a listed non-canonical cost triple.
ParamFiles ==
    { ContainerWith(Plaintext(1), PwA, <<>>, scrypt_variations[i], Nonce0) :
        i \in {1, 3, 6} }

\* Inputs of the password enumeration: sealed under a salt the search finds,
\* under one it does not, and two that are no container.
ListFiles ==
    { Container(Plaintext(1), PwA, s, "le", Nonce0) :
        s \in {<<>>, PwA, SaltU, common_salts[4]} }
    \cup { BadMagic(Container(Plaintext(1), PwA, <<>>, "le", Nonce0)),
           Truncate(Container(Plaintext(1), PwA, <<>>, "le", Nonce0), 20) }

PasswordLists ==
    UNION { [1..n -> {PwA, PwB, PwC}] : n \in 0..MaxPasswords }

Call(e, f, pw, s, pws) ==
    [entry |-> e, input |-> f, password |-> pw, salt |-> s, passwords |-> pws]

Scenarios ==
    { Call(e, f, pw, s, <<>>) :
        e \in {"decrypt_file", "decrypt_bytes"}, f \in GoodFiles \cup DamagedFiles,
        pw \in {PwA, PwB}, s \in {<<>>, SaltU} }
    \cup { Call(e, f, pw, s, <<>>) :
             e \in {"auto_decrypt", "try_decrypt_with_variations"},
             f \in SearchFiles \cup DamagedFiles,
             pw \in {PwA, PwB}, s \in {<<>>, SaltU} }
    \cup { Call(e, f, PwA, <<>>, <<>>) :
             e \in {"auto_decrypt", "try_decrypt_with_variations"},
             f \in ParamFiles }
    \cup { Call("try_multiple_passwords", f, <<>>, s, pws) :
             f \in ListFiles, s \in {<<>>, SaltU}, pws \in PasswordLists }

EngineIdle ==
    /\ base_nonce = <<>>
    /\ key = NoKey
    /\ current_pos = 0
    /\ chunk_nonce = <<>>
    /\ found_valid_chunk = FALSE
    /\ output = <<>>
    /\ df_result = "none"
    /\ db_out = <<>>
    /\ opens = <<>>
    /\ kdf_calls = 0
    /\ attempts = <<>>

SearchIdle ==
    /\ pw_idx = 1
    /\ variation = 1
    /\ auto_result = "none"
    /\ found_password = <<>>
    /\ auto_calls = <<>>

NonceIdle ==
    /\ n_rule = "none"
    /\ n_base = <<>>
    /\ n_prev = <<>>
    /\ n_cur = <<>>
    /\ n_steps = 0

StartPc(e) ==
    CASE e = "decrypt_file" -> "df_open"
      [] e = "decrypt_bytes" -> "db_len"
      [] e = "auto_decrypt" -> "auto_header"
      [] e = "try_decrypt_with_variations" -> "var_call"
      [] e = "try_multiple_passwords" -> "tmp_loop"

Init ==
    /\ NonceIdle
    /\ \E sc \in Scenarios :
         /\ entry = sc.entry
         /\ input = sc.input
         /\ passwords = sc.passwords
         /\ user_salt = sc.salt
         /\ self_password = sc.password
         \* try_multiple_passwords is an associated function: no receiver
         /\ self_salt = IF sc.entry = "try_multiple_passwords"
                        THEN <<>> ELSE new(sc.salt).salt
         /\ pc = StartPc(sc.entry)
         \* decrypt_file and decrypt_bytes run on the receiver itself
         /\ d_password = sc.password
         /\ d_salt = IF sc.entry = "try_multiple_passwords"
                     THEN <<>> ELSE new(sc.salt).salt
    /\ result = "none"
    /\ SearchIdle
    /\ EngineIdle

(***************************************************************************)
(* decrypt_file: decrypt.rs 143-335                                        *)
(***************************************************************************)
\* remaining_data: the bytes read_to_end returns after the 32 header bytes
remaining_data == SubSeq(input, HEADER_SIZE + 1, Len(input))

\* bug: the 16 bytes of the tag are left out of the chunk size
ChunkSizeNoTag(pos) ==
    LET remaining_bytes == Len(remaining_data) - pos
    IN  IF remaining_bytes > CHUNK_SIZE THEN CHUNK_SIZE ELSE remaining_bytes

\* chunk_size: decrypt.rs 222-231
ChunkSize(pos) ==
    LET remaining_bytes == Len(remaining_data) - pos
    IN  IF remaining_bytes > CHUNK_SIZE + TAG_SIZE THEN CHUNK_SIZE + TAG_SIZE
        ELSE remaining_bytes

\* chunk_data: decrypt.rs 238
ChunkData(pos) == SubSeq(remaining_data, pos + 1, pos + ChunkSize(pos))

\* One secretbox open call: which attempt, on which bytes, under which nonce.
OpenRec(how, pos, size, nonce, r) ==
    [how |-> how, pos |-> pos, size |-> size, nonce |-> nonce, ok |-> r.ok]

dfFrame == <<nonceVars, callVars, searchVars, d_password, d_salt, db_out, result>>

\* 144-145: File::open, File::create (the output file is created empty)
DfOpen ==
    /\ pc = "df_open"
    /\ output' = <<>>
    /\ attempts' = Append(attempts, <<d_password, d_salt>>)
    /\ base_nonce' = <<>>
    /\ key' = NoKey
    /\ current_pos' = 0
    /\ chunk_nonce' = <<>>
    /\ found_valid_chunk' = FALSE
    /\ opens' = <<>>
    /\ df_result' = "none"
    /\ pc' = "df_magic"
    /\ UNCHANGED <<dfFrame, kdf_calls>>

\* 147-156: read_exact of the magic, and its comparison
DfMagic ==
    /\ pc = "df_magic"
    /\ IF Len(input) < 8
       THEN df_result' = "Io" /\ pc' = "df_ret"
       ELSE IF SubSeq(input, 1, 8) # Plain(RCLONE_MAGIC)
            THEN df_result' = "InvalidFormat" /\ pc' = "df_ret"
            ELSE df_result' = df_result /\ pc' = "df_nonce"
    /\ UNCHANGED <<dfFrame, base_nonce, key, current_pos, chunk_nonce,
                   found_valid_chunk, output, opens, kdf_calls, attempts>>

\* 158-160: read_exact of the base nonce
DfNonce ==
    /\ pc = "df_nonce"
    /\ IF Len(input) < 8 + NONCE_SIZE
       THEN /\ df_result' = "Io"
            /\ pc' = "df_ret"
            /\ UNCHANGED base_nonce
       ELSE /\ base_nonce' = ByteValues(SubSeq(input, 9, 8 + NONCE_SIZE))
            /\ pc' = "df_key"
            /\ UNCHANGED df_result
    /\ UNCHANGED <<dfFrame, key, current_pos, chunk_nonce, found_valid_chunk,
                   output, opens, kdf_calls, attempts>>

\* 166-185: scrypt with the canonical parameters
DfKey ==
    /\ pc = "df_key"
    /\ key' = scrypt(d_password, d_salt, CanonicalParams)
    /\ kdf_calls' = kdf_calls + 1
    /\ pc' = "df_single"
    /\ UNCHANGED <<dfFrame, base_nonce, current_pos, chunk_nonce,
                   found_valid_chunk, output, opens, df_result, attempts>>

\* bug: the chunk loop is entered after a successful single-block open too
DfSingleBlockContinues ==
    /\ pc = "df_single"
    /\ LET r == secretbox_open(remaining_data, base_nonce, key)
       IN  /\ opens' = Append(opens, OpenRec("single", 0, Len(remaining_data),
                                             base_nonce, r))
           /\ output' = output \o r.data
    /\ current_pos' = 0
    /\ chunk_nonce' = base_nonce
    /\ found_valid_chunk' = FALSE
    /\ pc' = "df_loop"
    /\ UNCHANGED <<dfFrame, base_nonce, key, df_result, kdf_calls, attempts>>

\* 187-219: the whole ciphertext as one box under the base nonce
DfSingleBlock ==
    /\ pc = "df_single"
    /\ LET r == secretbox_open(remaining_data, base_nonce, key)
       IN  /\ opens' = Append(opens, OpenRec("single", 0, Len(remaining_data),
                                             base_nonce, r))
           /\ IF r.ok
              THEN /\ output' = output \o r.data
                   /\ df_result' = "Ok"
                   /\ pc' = "df_ret"
                   /\ UNCHANGED <<current_pos, chunk_nonce, found_valid_chunk>>
              ELSE /\ current_pos' = 0
                   /\ chunk_nonce' = base_nonce
                   /\ found_valid_chunk' = FALSE
                   /\ pc' = "df_loop"
                   /\ UNCHANGED <<output, df_result>>
    /\ UNCHANGED <<dfFrame, base_nonce, key, kdf_calls, attempts>>

\* 221: the loop condition is false
DfLoopExit ==
    /\ pc = "df_loop"
    /\ ~(current_pos < Len(remaining_data))
    /\ pc' = "df_after"
    /\ UNCHANGED <<dfFrame, base_nonce, key, current_pos, chunk_nonce,
                   found_valid_chunk, output, opens, df_result, kdf_calls, attempts>>

\* bug: the short last chunk is handed to secretbox::open before the loop ends
DfChunkTooSmallOpens ==
    /\ pc = "df_loop"
    /\ current_pos < Len(remaining_data)
    /\ ChunkSize(current_pos) < TAG_SIZE
    /\ opens' = Append(opens, OpenRec("chunk", current_pos, ChunkSize(current_pos),
                                      chunk_nonce, Failure))
    /\ pc' = "df_after"
    /\ UNCHANGED <<dfFrame, base_nonce, key, current_pos, chunk_nonce,
                   found_valid_chunk, output, df_result, kdf_calls, attempts>>

\* 233-236: fewer than 16 bytes remain
DfChunkTooSmall ==
    /\ pc = "df_loop"
    /\ current_pos < Len(remaining_data)
    /\ ChunkSize(current_pos) < TAG_SIZE
    /\ pc' = "df_after"
    /\ UNCHANGED <<dfFrame, base_nonce, key, current_pos, chunk_nonce,
                   found_valid_chunk, output, opens, df_result, kdf_calls, attempts>>

InLoop ==
    /\ pc = "df_loop"
    /\ current_pos < Len(remaining_data)
    /\ ChunkSize(current_pos) >= TAG_SIZE

OpenChunk == secretbox_open(ChunkData(current_pos), chunk_nonce, key)

ChunkRec(how, nonce, r) ==
    OpenRec(how, current_pos, ChunkSize(current_pos), nonce, r)

\* bug: the offset is not advanced after a chunk was written
DfChunkOkStays ==
    /\ InLoop
    /\ OpenChunk.ok
    /\ opens' = Append(opens, ChunkRec("chunk", chunk_nonce, OpenChunk))
    /\ output' = output \o OpenChunk.data
    /\ chunk_nonce' = increment_nonce(chunk_nonce)
    /\ found_valid_chunk' = TRUE
    /\ UNCHANGED <<dfFrame, base_nonce, key, current_pos, df_result, kdf_calls,
                   attempts, pc>>

\* 246-267: the chunk authenticates under the current nonce
DfChunkOk ==
    /\ InLoop
    /\ OpenChunk.ok
    /\ opens' = Append(opens, ChunkRec("chunk", chunk_nonce, OpenChunk))
    /\ output' = output \o OpenChunk.data
    /\ current_pos' = current_pos + ChunkSize(current_pos)
    /\ chunk_nonce' = increment_nonce(chunk_nonce)
    /\ found_valid_chunk' = TRUE
    /\ UNCHANGED <<dfFrame, base_nonce, key, df_result, kdf_calls, attempts, pc>>

\* bug: the alternate rules are tried at every chunk after the first
AnyLaterChunk == current_pos > 0 /\ found_valid_chunk

\* 272: the failing chunk is the second one and the first one succeeded
SecondChunk == current_pos = CHUNK_SIZE + TAG_SIZE /\ found_valid_chunk

OpenBE == secretbox_open(ChunkData(current_pos), increment_nonce_be(base_nonce), key)

Open64 == secretbox_open(ChunkData(current_pos), increment_nonce_64bit(base_nonce), key)

\* 276-292: the second chunk authenticates under the big-endian rule
DfChunkAltBE ==
    /\ InLoop
    /\ ~OpenChunk.ok
    /\ SecondChunk
    /\ OpenBE.ok
    /\ opens' = opens \o << ChunkRec("chunk", chunk_nonce, OpenChunk),
                            ChunkRec("be", increment_nonce_be(base_nonce), OpenBE) >>
    /\ output' = output \o OpenBE.data
    /\ current_pos' = current_pos + ChunkSize(current_pos)
    /\ chunk_nonce' = increment_nonce_be(increment_nonce_be(base_nonce))
    /\ UNCHANGED <<dfFrame, base_nonce, key, found_valid_chunk, df_result,
                   kdf_calls, attempts, pc>>

\* 294-309: the second chunk authenticates under the 64-bit counter rule
DfChunkAlt64 ==
    /\ InLoop
    /\ ~OpenChunk.ok
    /\ SecondChunk
    /\ ~OpenBE.ok
    /\ Open64.ok
    /\ opens' = opens \o << ChunkRec("chunk", chunk_nonce, OpenChunk),
                            ChunkRec("be", increment_nonce_be(base_nonce), OpenBE),
                            ChunkRec("c64", increment_nonce_64bit(base_nonce), Open64) >>
    /\ output' = output \o Open64.data
    /\ current_pos' = current_pos + ChunkSize(current_pos)
    /\ chunk_nonce' = increment_nonce_64bit(increment_nonce_64bit(base_nonce))
    /\ UNCHANGED <<dfFrame, base_nonce, key, found_valid_chunk, df_result,
                   kdf_calls, attempts, pc>>

\* The open calls of an iteration in which no rule authenticates the chunk.
FailedOpens ==
    << ChunkRec("chunk", chunk_nonce, OpenChunk) >>
    \o (IF SecondChunk
        THEN << ChunkRec("be", increment_nonce_be(base_nonce), OpenBE),
                ChunkRec("c64", increment_nonce_64bit(base_nonce), Open64) >>
        ELSE <<>>)

ChunkFails ==
    /\ InLoop
    /\ ~OpenChunk.ok
    /\ SecondChunk => (~OpenBE.ok /\ ~Open64.ok)

\* bug: the bytes of the failing chunk are written before the loop is left
DfChunkFailBreakWrites ==
    /\ ChunkFails
    /\ found_valid_chunk
    /\ opens' = opens \o FailedOpens
    /\ output' = output \o <<0>>
    /\ pc' = "df_after"
    /\ UNCHANGED <<dfFrame, base_nonce, key, current_pos, chunk_nonce,
                   found_valid_chunk, df_result, kdf_calls, attempts>>

\* bug: a failing later chunk is reported as an error
DfChunkFailBreakFails ==
    /\ ChunkFails
    /\ found_valid_chunk
    /\ opens' = opens \o FailedOpens
    /\ df_result' = "InvalidPassword"
    /\ pc' = "df_ret"
    /\ UNCHANGED <<dfFrame, base_nonce, key, current_pos, chunk_nonce,
                   found_valid_chunk, output, kdf_calls, attempts>>

\* 312-317: a later chunk fails: break
DfChunkFailBreak ==
    /\ ChunkFails
    /\ found_valid_chunk
    /\ opens' = opens \o FailedOpens
    /\ pc' = "df_after"
    /\ UNCHANGED <<dfFrame, base_nonce, key, current_pos, chunk_nonce,
                   found_valid_chunk, output, df_result, kdf_calls, attempts>>

\* bug: a first chunk that fails is reported as a malformed container
DfChunkFailFirstFormat ==
    /\ ChunkFails
    /\ ~found_valid_chunk
    /\ opens' = opens \o FailedOpens
    /\ df_result' = "InvalidFormat"
    /\ pc' = "df_ret"
    /\ UNCHANGED <<dfFrame, base_nonce, key, current_pos, chunk_nonce,
                   found_valid_chunk, output, kdf_calls, attempts>>

\* 319: the first chunk fails
DfChunkFailFirst ==
    /\ ChunkFails
    /\ ~found_valid_chunk
    /\ opens' = opens \o FailedOpens
    /\ df_result' = "InvalidPassword"
    /\ pc' = "df_ret"
    /\ UNCHANGED <<dfFrame, base_nonce, key, current_pos, chunk_nonce,
                   found_valid_chunk, output, kdf_calls, attempts>>

\* bug: the check of found_valid_chunk after the loop is missing
DfAfterLoopAlwaysOk ==
    /\ pc = "df_after"
    /\ df_result' = "Ok"
    /\ pc' = "df_ret"
    /\ UNCHANGED <<dfFrame, base_nonce, key, current_pos, chunk_nonce,
                   found_valid_chunk, output, opens, kdf_calls, attempts>>

\* 323-334: after the loop
DfAfterLoop ==
    /\ pc = "df_after"
    /\ df_result' = IF ~found_valid_chunk THEN "InvalidPassword" ELSE "Ok"
    /\ pc' = "df_ret"
    /\ UNCHANGED <<dfFrame, base_nonce, key, current_pos, chunk_nonce,
                   found_valid_chunk, output, opens, kdf_calls, attempts>>

\* decrypt_file was the function called: its result is the call's result
DfReturn ==
    /\ pc = "df_ret"
    /\ entry = "decrypt_file"
    /\ result' = df_result
    /\ pc' = "done"
    /\ UNCHANGED <<nonceVars, callVars, searchVars, engineVars>>

(***************************************************************************)
(* decrypt_bytes: decrypt.rs 337-373                                       *)
(***************************************************************************)
dbFrame == <<nonceVars, callVars, searchVars, d_password, d_salt, current_pos,
             chunk_nonce, found_valid_chunk, output, df_result, attempts>>

\* 338-345: the length check, then the magic check
DbHeader ==
    /\ pc = "db_len"
    /\ IF Len(input) < 8 + NONCE_SIZE
       THEN result' = "FileTooShort" /\ pc' = "done" /\ UNCHANGED base_nonce
       ELSE IF SubSeq(input, 1, 8) # Plain(RCLONE_MAGIC)
            THEN result' = "InvalidFormat" /\ pc' = "done" /\ UNCHANGED base_nonce
            ELSE /\ base_nonce' = ByteValues(SubSeq(input, 9, 8 + NONCE_SIZE))
                 /\ pc' = "db_key"
                 /\ UNCHANGED result
    /\ UNCHANGED <<dbFrame, key, db_out, opens, kdf_calls>>

\* 351-365
DbKey ==
    /\ pc = "db_key"
    /\ key' = scrypt(d_password, d_salt, CanonicalParams)
    /\ kdf_calls' = kdf_calls + 1
    /\ pc' = "db_open"
    /\ UNCHANGED <<dbFrame, base_nonce, db_out, opens, result>>

\* 367-372
DbOpen ==
    /\ pc = "db_open"
    /\ LET r == secretbox_open(remaining_data, base_nonce, key)
       IN  /\ opens' = Append(opens, OpenRec("bytes", 0, Len(remaining_data),
                                             base_nonce, r))
           /\ db_out' = r.data
           /\ result' = IF r.ok THEN "Ok" ELSE "InvalidPassword"
    /\ pc' = "done"
    /\ UNCHANGED <<dbFrame, base_nonce, key, kdf_calls>>

(***************************************************************************)
(* try_decrypt_with_variations: decrypt.rs 376-426                         *)
(***************************************************************************)
\* The salt of temp_decryptor in variation v: 1 empty, 2 the password,
\* 3 the receiver's salt, 4..7 the common salts.
VariationSalt(v) ==
    CASE v = 1 -> <<>>
      [] v = 2 -> self_password
      [] v = 3 -> self_salt
      [] OTHER -> common_salts[v - 3]

LastVariation == 3 + Len(common_salts)

\* bug: the receiver's salt is never tried
NextVariationSkip3(v) == IF v = 2 THEN 4 ELSE v + 1

\* 399: variation 3 is made only if the receiver's salt is not empty
NextVariation(v) == IF v = 2 /\ self_salt = <<>> THEN 4 ELSE v + 1

searchFrame == <<nonceVars, callVars, self_password, self_salt, pw_idx,
                 found_password, auto_calls>>

\* 381-385, 392-393, 401-402, 418-419: temp_decryptor.decrypt_file(..)
VarCall ==
    /\ pc = "var_call"
    /\ d_password' = self_password
    /\ d_salt' = VariationSalt(variation)
    /\ pc' = "df_open"
    /\ UNCHANGED <<searchFrame, variation, auto_result, result, base_nonce, key,
                   current_pos, chunk_nonce, found_valid_chunk, output, df_result,
                   db_out, opens, kdf_calls, attempts>>

InSearch == entry \in {"auto_decrypt", "try_decrypt_with_variations",
                       "try_multiple_passwords"}

\* if let Ok(_) = ... { return Ok(()) }
VarSuccess ==
    /\ pc = "df_ret"
    /\ InSearch
    /\ df_result = "Ok"
    /\ auto_result' = "Ok"
    /\ pc' = "auto_ret"
    /\ UNCHANGED <<searchFrame, variation, result, engineVars>>

\* any Err of decrypt_file: on to the next variation
VarNext ==
    /\ pc = "df_ret"
    /\ InSearch
    /\ df_result # "Ok"
    /\ NextVariation(variation) <= LastVariation
    /\ variation' = NextVariation(variation)
    /\ pc' = "var_call"
    /\ UNCHANGED <<searchFrame, auto_result, result, engineVars>>

\* 425: Err(DecryptionError::InvalidPassword)
VarExhausted ==
    /\ pc = "df_ret"
    /\ InSearch
    /\ df_result # "Ok"
    /\ NextVariation(variation) > LastVariation
    /\ auto_result' = "InvalidPassword"
    /\ pc' = "auto_ret"
    /\ UNCHANGED <<searchFrame, variation, result, engineVars>>

(***************************************************************************)
(* auto_decrypt: decrypt.rs 429-444                                        *)
(***************************************************************************)
AutoHeader ==
    /\ pc = "auto_header"
    /\ auto_calls' = Append(auto_calls, self_password)
    /\ IF Len(input) < 32
       THEN auto_result' = "Io" /\ pc' = "auto_ret" /\ UNCHANGED variation
       ELSE IF SubSeq(input, 1, 8) # Plain(RCLONE_MAGIC)
            THEN auto_result' = "InvalidFormat" /\ pc' = "auto_ret" /\ UNCHANGED variation
            ELSE variation' = 1 /\ pc' = "var_call" /\ UNCHANGED auto_result
    /\ UNCHANGED <<nonceVars, callVars, self_password, self_salt, pw_idx,
                   found_password, result, engineVars>>

\* auto_decrypt or try_decrypt_with_variations was the function called
AutoReturn ==
    /\ pc = "auto_ret"
    /\ entry \in {"auto_decrypt", "try_decrypt_with_variations"}
    /\ result' = auto_result
    /\ pc' = "done"
    /\ UNCHANGED <<nonceVars, callVars, searchVars, engineVars>>

(***************************************************************************)
(* try_multiple_passwords: decrypt.rs 447-471                              *)
(***************************************************************************)
\* 454, 462: the next password, RcloneDecryptor::new(password, String::new())
TmpNext ==
    /\ pc = "tmp_loop"
    /\ pw_idx <= Len(passwords)
    /\ self_password' = passwords[pw_idx]
    /\ self_salt' = <<>>
    /\ pc' = "auto_header"
    /\ UNCHANGED <<nonceVars, callVars, pw_idx, variation, auto_result,
                   found_password, auto_calls, result, engineVars>>

\* 470: the list is exhausted
TmpExhausted ==
    /\ pc = "tmp_loop"
    /\ pw_idx > Len(passwords)
    /\ result' = "InvalidPassword"
    /\ pc' = "done"
    /\ UNCHANGED <<nonceVars, callVars, searchVars, engineVars>>

\* bug: the loop ends at the first failed password
TmpAfterAutoGiveUp ==
    /\ pc = "auto_ret"
    /\ entry = "try_multiple_passwords"
    /\ IF auto_result = "Ok"
       THEN /\ result' = "Ok"
            /\ found_password' = passwords[pw_idx]
            /\ pc' = "done"
            /\ UNCHANGED pw_idx
       ELSE /\ result' = "InvalidPassword"
            /\ pc' = "done"
            /\ UNCHANGED <<pw_idx, found_password>>
    /\ UNCHANGED <<nonceVars, callVars, self_password, self_salt, variation,
                   auto_result, auto_calls, engineVars>>

\* 464-467: if let Ok(_) = decryptor.auto_decrypt(..) { return Ok(password) }
TmpAfterAuto ==
    /\ pc = "auto_ret"
    /\ entry = "try_multiple_passwords"
    /\ IF auto_result = "Ok"
       THEN /\ result' = "Ok"
            /\ found_password' = passwords[pw_idx]
            /\ pc' = "done"
            /\ UNCHANGED pw_idx
       ELSE /\ pw_idx' = pw_idx + 1
            /\ pc' = "tmp_loop"
            /\ UNCHANGED <<result, found_password>>
    /\ UNCHANGED <<nonceVars, callVars, self_password, self_salt, variation,
                   auto_result, auto_calls, engineVars>>

Next ==
    \/ DfOpen \/ DfMagic \/ DfNonce \/ DfKey \/ DfSingleBlock
    \/ DfLoopExit \/ DfChunkTooSmall \/ DfChunkOk \/ DfChunkAltBE \/ DfChunkAlt64
    \/ DfChunkFailBreak \/ DfChunkFailFirst \/ DfAfterLoop \/ DfReturn
    \/ DbHeader \/ DbKey \/ DbOpen
    \/ VarCall \/ VarSuccess \/ VarNext \/ VarExhausted
    \/ AutoHeader \/ AutoReturn
    \/ TmpNext \/ TmpExhausted \/ TmpAfterAuto

Spec == Init /\ [][Next]_vars

(***************************************************************************)
(* Vocabulary of the claims about the engine and the search                *)
(***************************************************************************)
HasHeader == Len(input) >= HEADER_SIZE

MagicMatches == Len(input) >= 8 /\ SubSeq(input, 1, 8) = Plain(RCLONE_MAGIC)

WellFormed == HasHeader /\ MagicMatches

HeaderNonce == ByteValues(SubSeq(input, 9, HEADER_SIZE))

\* The plaintext bytes the ciphertext bytes after a tag were made from.
BodyPlain(c) == [i \in 1..(Len(c) - TAG_SIZE) |-> c[TAG_SIZE + i][4][1]]

\* c is exactly one box, sealed under nonce and k.
Authentic(c, nonce, k) ==
    /\ Len(c) >= TAG_SIZE
    /\ c[1][3] = 1
    /\ Len(c[1][4]) = Len(c) - TAG_SIZE
    /\ c = secretbox_seal(BodyPlain(c), nonce, k)

FirstChunk == SubSeq(remaining_data, 1, Min(Len(remaining_data), CHUNK_SIZE + TAG_SIZE))

\* The first chunk authenticates under (password, salt), as a single block
\* or as the first chunk of the chunked path.
FirstAuthentic(password, salt) ==
    LET k == <<password, salt, <<14, 8, 1>> >>
    IN  \/ Authentic(remaining_data, HeaderNonce, k)
        \/ Authentic(FirstChunk, HeaderNonce, k)

RECURSIVE Flatten(_)
Flatten(ss) == IF ss = <<>> THEN <<>> ELSE Head(ss) \o Flatten(Tail(ss))

IsPrefix(s, t) == Len(s) <= Len(t) /\ s = SubSeq(t, 1, Len(s))

\* C1: a conforming container built from any plaintext P (the empty one and
\* those of several chunks included) with the canonical cost parameters and
\* the little-endian nonce progression is decrypted by decrypt_file, given
\* the same password and salt, to exactly P with result Ok.
C1_RoundTrip ==
    (entry = "decrypt_file" /\ pc = "done") =>
        \A n \in 0..MaxPlainLen : \A nonce \in BaseNonces :
            input = Container(Plaintext(n), self_password, self_salt, "le", nonce)
                => (result = "Ok" /\ output = Plaintext(n))

\* The round trip of C1 for the plaintexts of at least one byte.
RoundTripNonEmpty ==
    (entry = "decrypt_file" /\ pc = "done") =>
        \A n \in 1..MaxPlainLen : \A nonce \in BaseNonces :
            input = Container(Plaintext(n), self_password, self_salt, "le", nonce)
                => (result = "Ok" /\ output = Plaintext(n))

RoundTripReached ==
    /\ entry = "decrypt_file"
    /\ pc = "done"
    /\ input = Container(Plaintext(MaxPlainLen), self_password, self_salt, "le", NonceC)
    /\ output = Plaintext(MaxPlainLen)

\* C2: for every input whose first 8 bytes differ from the magic tag,
\* decrypt_file, decrypt_bytes and auto_decrypt end in InvalidFormat, and no
\* key derivation and no secretbox open is made on the way.
C2_BadMagicIsInvalidFormat ==
    (/\ entry \in {"decrypt_file", "decrypt_bytes", "auto_decrypt"}
     /\ Len(input) >= 8
     /\ ~MagicMatches)
        => /\ kdf_calls = 0
           /\ opens = <<>>
           /\ pc = "done" => result = "InvalidFormat"

\* C3: once a magic mismatch was detected for an input, no further
\* configuration is attempted on it (no second salt candidate, no second
\* password) and the failure surfaced is InvalidFormat.
C3_MagicNeverRetried ==
    (/\ InSearch
     /\ HasHeader
     /\ ~MagicMatches
     /\ (auto_calls # <<>> \/ attempts # <<>>))
        => /\ Len(auto_calls) <= 1
           /\ Len(attempts) <= 1
           /\ pc = "done" => result = "InvalidFormat"

\* C4: when the first chunk of a well-formed container does not
\* authenticate under the given password and salt, neither as a single
\* block nor as the first chunk, decrypt_file and decrypt_bytes return
\* InvalidPassword and no plaintext byte is written or returned.
C4_WrongKeyWritesNothing ==
    (/\ entry \in {"decrypt_file", "decrypt_bytes"}
     /\ WellFormed
     /\ ~FirstAuthentic(self_password, self_salt))
        => /\ output = <<>>
           /\ db_out = <<>>
           /\ pc = "done" => result = "InvalidPassword"

C4_Witness ==
    /\ entry = "decrypt_file"
    /\ pc = "done"
    /\ WellFormed
    /\ Len(remaining_data) > CHUNK_SIZE + TAG_SIZE
    /\ ~FirstAuthentic(self_password, self_salt)
    /\ Len(opens) = 2
    /\ result = "InvalidPassword"
    /\ output = <<>>

\* The bytes an open call was made on.
OpenedBytes(o) == SubSeq(remaining_data, o.pos + 1, o.pos + o.size)

VerifiedOpens == SelectSeq(opens, LAMBDA o : o.ok)

\* C5: in every state of a decrypt_file run the output holds exactly the
\* plaintexts of the chunks whose tag has verified, concatenated in chunk
\* order; nothing of a chunk that failed authentication is written.
C5_OutputIsVerifiedChunks ==
    entry # "decrypt_bytes" =>
        /\ output = Flatten([i \in 1..Len(VerifiedOpens) |->
                                BodyPlain(OpenedBytes(VerifiedOpens[i]))])
        /\ \A i \in 1..Len(VerifiedOpens) :
              /\ Authentic(OpenedBytes(VerifiedOpens[i]), VerifiedOpens[i].nonce, key)
              /\ i > 1 => VerifiedOpens[i - 1].pos + VerifiedOpens[i - 1].size
                             = VerifiedOpens[i].pos

C5_Witness ==
    /\ entry = "decrypt_file"
    /\ pc = "done"
    /\ result = "Ok"
    /\ Len(VerifiedOpens) = 3
    /\ Len(output) = 3 * CHUNK_SIZE
    /\ Len(opens) >= 6

\* A password the search can decrypt the input with: the first chunk
\* authenticates under it and one of the salts tried for it.
TriedSalts(password) ==
    {<<>>, password} \cup {common_salts[i] : i \in 1..Len(common_salts)}

Correct(password) ==
    /\ WellFormed
    /\ \E s \in TriedSalts(password) : FirstAuthentic(password, s)

\* C6: try_multiple_passwords tries the candidates in input order, skips
\* none and stops at the first that decrypts: with the first correct
\* password at index k it makes exactly k attempts and returns that
\* password; it fails only after every candidate was tried.
C6_PasswordsInOrder ==
    entry = "try_multiple_passwords" =>
        /\ IsPrefix(auto_calls, passwords)
        /\ \A i \in 1..(Len(auto_calls) - 1) : ~Correct(passwords[i])
        /\ (pc = "done" /\ result = "Ok") =>
              /\ auto_calls # <<>>
              /\ Correct(passwords[Len(auto_calls)])
              /\ found_password = passwords[Len(auto_calls)]
        /\ (pc = "done" /\ result # "Ok") =>
              /\ auto_calls = passwords
              /\ \A i \in 1..Len(passwords) : ~Correct(passwords[i])

C6_Witness ==
    /\ entry = "try_multiple_passwords"
    /\ pc = "done"
    /\ result = "Ok"
    /\ Len(passwords) = 3
    /\ Len(auto_calls) = 2
    /\ found_password = passwords[2]
    /\ ~Correct(passwords[1]) /\ Correct(passwords[2]) /\ ~Correct(passwords[3])

\* The salt candidates of one password, in the order of the search.
Candidates(password, salt) ==
    << <<>>, password >>
    \o (IF salt # <<>> THEN << salt >> ELSE <<>>)
    \o << <<114, 99, 108, 111, 110, 101>>, <<100, 101, 102, 97, 117, 108, 116>>,
          <<>>, <<115, 97, 108, 116>> >>

\* The password and the user-supplied salt of the salt search last begun.
SearchPassword ==
    IF auto_calls # <<>> THEN auto_calls[Len(auto_calls)] ELSE self_password

SearchSalt == IF entry = "try_multiple_passwords" THEN <<>> ELSE self_salt

\* The decrypt_file calls of that search (each earlier password of a list
\* went through all its candidates).
CurrentAttempts ==
    IF entry = "try_multiple_passwords"
    THEN SubSeq(attempts,
                (Len(auto_calls) - 1) * Len(Candidates(SearchPassword, <<>>)) + 1,
                Len(attempts))
    ELSE attempts

\* C7: the salt search for one password tries, in this order, the empty
\* salt, the password's bytes, the user-supplied salt (when one was given),
\* then "rclone", "default", empty and "salt"; it stops at the first that
\* succeeds and reports failure only after all of them failed.
C7_SaltOrder ==
    (InSearch /\ WellFormed /\ attempts # <<>>) =>
        LET cand == Candidates(SearchPassword, SearchSalt)
            made == CurrentAttempts
        IN  /\ Len(made) <= Len(cand)
            /\ \A i \in 1..Len(made) : made[i] = <<SearchPassword, cand[i]>>
            /\ \A i \in 1..(Len(made) - 1) : ~FirstAuthentic(SearchPassword, cand[i])
            /\ (pc = "auto_ret" /\ auto_result = "Ok") =>
                  /\ made # <<>>
                  /\ FirstAuthentic(SearchPassword, cand[Len(made)])
            /\ (pc = "auto_ret" /\ auto_result # "Ok") =>
                  /\ Len(made) = Len(cand)
                  /\ \A i \in 1..Len(cand) : ~FirstAuthentic(SearchPassword, cand[i])

C7_Witness ==
    /\ entry = "auto_decrypt"
    /\ pc = "done"
    /\ result = "Ok"
    /\ self_salt # <<>>
    /\ Len(attempts) = 7
    /\ attempts[3] = <<self_password, self_salt>>
    /\ attempts[7] = <<self_password, <<115, 97, 108, 116>> >>

\* The opens of the chunked path made under the current nonce: one per chunk.
ChunkOpens == SelectSeq(opens, LAMBDA o : o.how = "chunk")

FullChunk == CHUNK_SIZE + TAG_SIZE

\* A chunk of the plan at offset pos with size bytes: not empty, full unless
\* it is the last one, and starting at a multiple of the full chunk size.
PlannedChunk(pos, size) ==
    /\ pos % FullChunk = 0
    /\ 1 <= size /\ size <= FullChunk
    /\ pos + size <= Len(remaining_data)
    /\ size < FullChunk => pos + size = Len(remaining_data)

\* C11: the chunk plan never contains a zero-length chunk: a ciphertext of
\* exactly one full chunk (CHUNK_SIZE + 16 bytes) is processed as one chunk,
\* and for any length every chunk but the last is full and the last has
\* between 1 and CHUNK_SIZE + 16 bytes, the offsets ending at the length.
C11_ChunkPlan ==
    /\ \A i \in 1..Len(ChunkOpens) :
          /\ ChunkOpens[i].pos = (i - 1) * FullChunk
          /\ PlannedChunk(ChunkOpens[i].pos, ChunkOpens[i].size)
    /\ (pc = "df_loop" /\ current_pos < Len(remaining_data)) =>
          PlannedChunk(current_pos, ChunkSize(current_pos))
    /\ pc \in {"df_loop", "df_after"} =>
          /\ current_pos <= Len(remaining_data)
          /\ current_pos % FullChunk = 0 \/ current_pos = Len(remaining_data)
    /\ (WellFormed /\ Len(remaining_data) = FullChunk) => Len(ChunkOpens) <= 1

C11_Witness ==
    /\ entry = "decrypt_file"
    /\ pc = "done"
    /\ WellFormed
    /\ Len(remaining_data) = FullChunk
    /\ Len(ChunkOpens) = 1
    /\ ChunkOpens[1].size = FullChunk

\* A ciphertext of several chunks whose last chunk is shorter is walked to
\* its end.
C11_EndReached ==
    /\ pc = "df_after"
    /\ current_pos = Len(remaining_data)
    /\ Len(ChunkOpens) = 4
    /\ ChunkOpens[4].size < FullChunk

\* C12 as stated: no authenticated-decrypt call is ever made on a byte range
\* shorter than 16 bytes, the whole-container single-block attempt included.
C12_NoOpenBelowTag ==
    \A i \in 1..Len(opens) : opens[i].size >= TAG_SIZE

\* C12 amended: in the chunked path no open is made on fewer than 16 bytes;
\* the whole-container attempt (of decrypt_file and of decrypt_bytes) is made
\* on the ciphertext whatever its length, and on fewer than 16 bytes it
\* fails and writes nothing.
C12_NoChunkOpenBelowTag ==
    \A i \in 1..Len(opens) :
        /\ opens[i].how \in {"chunk", "be", "c64"} => opens[i].size >= TAG_SIZE
        /\ (opens[i].how \in {"single", "bytes"} /\ opens[i].size < TAG_SIZE) =>
              /\ ~opens[i].ok
              /\ output = <<>>
              /\ db_out = <<>>

\* The loop met a last chunk shorter than a tag and left without opening it.
C12_Witness ==
    /\ pc = "df_after"
    /\ current_pos > 0
    /\ current_pos < Len(remaining_data)
    /\ ChunkSize(current_pos) < TAG_SIZE
    /\ Len(opens) > 1
    /\ opens[Len(opens)].pos < current_pos

\* The whole-container attempt was made on fewer than 16 bytes.
C12_ShortSingleReached ==
    /\ Len(opens) = 1
    /\ opens[1].how = "single"
    /\ opens[1].size < TAG_SIZE
    /\ opens[1].size > 0

\* The first attempt of the search ends in an I/O error: read_exact meets the
\* end of the file inside the header.
FirstAttemptIo ==
    \/ /\ entry = "try_decrypt_with_variations"
       /\ Len(input) < 8 \/ (MagicMatches /\ ~HasHeader)
    \/ /\ entry = "try_multiple_passwords"
       /\ passwords # <<>>
       /\ ~HasHeader

\* C17: an I/O failure during any attempt is fatal and propagated at once:
\* the search makes no further attempt after an attempt that ended in an I/O
\* failure, and the error it returns is that I/O failure.
C17_IoIsFatal ==
    FirstAttemptIo =>
        /\ Len(attempts) <= 1
        /\ Len(auto_calls) <= 1
        /\ pc = "done" => result = "Io"

\* C18: an input shorter than the 32-byte header is reported as a malformed
\* container (InvalidFormat, the kind of a bad magic) by decrypt_file,
\* decrypt_bytes and auto_decrypt.
C18_ShortInputIsInvalidFormat ==
    (/\ entry \in {"decrypt_file", "decrypt_bytes", "auto_decrypt"}
     /\ ~HasHeader
     /\ pc = "done") => result = "InvalidFormat"

\* C19: the password enumeration runs the whole salt search for every
\* candidate, the salt given on the command line included, so a container
\* encrypted with a listed password and the user-supplied salt is recovered.
C19_UserSaltSearched ==
    (/\ entry = "try_multiple_passwords"
     /\ pc = "done"
     /\ WellFormed
     /\ new(user_salt).result = "Ok"
     /\ \E i \in 1..Len(passwords) :
           FirstAuthentic(passwords[i], new(user_salt).salt))
    => (/\ result = "Ok"
        /\ \E i \in 1..Len(attempts) : attempts[i][2] = new(user_salt).salt)

RECURSIVE AdvanceTimes(_, _, _)
AdvanceTimes(rule, nonce, k) ==
    IF k = 0 THEN nonce ELSE AdvanceTimes(rule, Advance(rule, nonce), k - 1)

\* The rule whose fallback open verified the second chunk.
AdoptedRule ==
    IF \E i \in 1..Len(opens) : opens[i].how = "be" /\ opens[i].ok THEN "be"
    ELSE IF \E i \in 1..Len(opens) : opens[i].how = "c64" /\ opens[i].ok THEN "c64"
    ELSE "none"

\* C20: after a fallback succeeded at the second chunk the adopted rule gives
\* the nonce of every later chunk (chunk i is tried under the base nonce
\* advanced i times by that rule), so a container of four or more chunks
\* written under that rule is decrypted completely.
C20_AdoptedRuleKept ==
    entry = "decrypt_file" =>
        /\ AdoptedRule # "none" =>
              \A i \in 3..Len(ChunkOpens) :
                  ChunkOpens[i].nonce = AdvanceTimes(AdoptedRule, base_nonce, i - 1)
        /\ \A rule \in {"be", "c64"}, n \in (3 * CHUNK_SIZE + 1)..MaxPlainLen :
              (/\ WellFormed
               /\ input = Container(Plaintext(n), d_password, d_salt, rule, HeaderNonce)
               /\ pc = "done")
              => (result = "Ok" /\ output = Plaintext(n))

(***************************************************************************)
(* Claims about the course of one decrypt_file run                         *)
(***************************************************************************)
\* opens[i] is an alternate-rule open made as the claim says: at the second
\* chunk, after the first chunk verified, right after the failed open prev
\* of the same bytes, under the base nonce advanced once by rule.
AlternateOpen(i, rule, prev) ==
    /\ opens[i].pos = FullChunk
    /\ opens[i].nonce = Advance(rule, base_nonce)
    /\ i > 1
    /\ opens[i - 1].how = prev
    /\ ~opens[i - 1].ok
    /\ opens[i - 1].pos = opens[i].pos
    /\ opens[i - 1].size = opens[i].size
    /\ \E j \in 1..(i - 1) :
          opens[j].how = "chunk" /\ opens[j].pos = 0 /\ opens[j].ok

\* C21: alternate nonce rules are tried only when the failing chunk is the
\* second chunk and the first chunk has succeeded, in the order big-endian
\* then trailing-counter, each on the same chunk bytes under the base nonce
\* advanced exactly once by that rule; at no other chunk is one tried.
C21_FallbackOnlyAtSecondChunk ==
    \A i \in 1..Len(opens) :
        /\ opens[i].how = "be" => AlternateOpen(i, "be", "chunk")
        /\ opens[i].how = "c64" => AlternateOpen(i, "c64", "be")

\* Both alternate rules were tried at the second chunk, the second one with
\* success.
C21_Witness ==
    /\ Len(opens) >= 4
    /\ opens[Len(opens) - 1].how = "be"
    /\ ~opens[Len(opens) - 1].ok
    /\ opens[Len(opens)].how = "c64"
    /\ opens[Len(opens)].ok

\* The third chunk failed and the loop was left with no alternate rule tried.
C21_LaterFailureReached ==
    /\ pc = "df_after"
    /\ current_pos = 2 * FullChunk
    /\ opens[Len(opens)].how = "chunk"
    /\ opens[Len(opens)].pos = 2 * FullChunk
    /\ ~opens[Len(opens)].ok

LastOpen == opens[Len(opens)]

\* The last open of the run failed on a chunk other than the first.
LaterChunkFailed == opens # <<>> /\ ~LastOpen.ok /\ LastOpen.pos > 0

\* C22: when a chunk other than the first fails authentication under every
\* rule tried for it, after at least one chunk has succeeded, decrypt_file
\* stops and returns Ok, not an error: the output is exactly the plaintext
\* of the chunks decrypted before the failure and the rest of the
\* ciphertext is left unprocessed.
C22_LaterFailureStopsWithOk ==
    LaterChunkFailed =>
        /\ found_valid_chunk
        /\ pc # "df_loop"
        /\ df_result = (IF pc = "df_after" THEN "none" ELSE "Ok")
        /\ (entry = "decrypt_file" /\ pc = "done") => result = "Ok"
        /\ current_pos = LastOpen.pos
        /\ VerifiedOpens # <<>>
        /\ VerifiedOpens[Len(VerifiedOpens)].pos
              + VerifiedOpens[Len(VerifiedOpens)].size = LastOpen.pos
        /\ output = Flatten([i \in 1..Len(VerifiedOpens) |->
                                BodyPlain(OpenedBytes(VerifiedOpens[i]))])
        /\ Len(output) = LastOpen.pos - TAG_SIZE * Len(VerifiedOpens)

C22_Witness ==
    /\ entry = "decrypt_file"
    /\ pc = "done"
    /\ result = "Ok"
    /\ LaterChunkFailed
    /\ LastOpen.pos = 2 * FullChunk
    /\ Len(output) = 2 * CHUNK_SIZE
    /\ current_pos + LastOpen.size <= Len(remaining_data)

\* C23: the whole ciphertext is first tried as one block under the base
\* nonce; if that authenticates, the output is exactly its plaintext, the
\* run ends and no chunked attempt is made; the chunked path, which starts
\* again at offset 0 with the base nonce, is entered only after the
\* single-block attempt failed.
C23_SingleBlockFirst ==
    entry # "decrypt_bytes" =>
        /\ \A i \in 1..Len(opens) : opens[i].how = "single" <=> i = 1
        /\ opens # <<>> =>
              /\ opens[1].pos = 0
              /\ opens[1].size = Len(remaining_data)
              /\ opens[1].nonce = HeaderNonce
        /\ (opens # <<>> /\ opens[1].ok) =>
              /\ Len(opens) = 1
              /\ output = BodyPlain(remaining_data)
              /\ pc \notin {"df_single", "df_loop", "df_after"}
              /\ df_result = "Ok"
              /\ (entry = "decrypt_file" /\ pc = "done") => result = "Ok"
        /\ Len(opens) >= 2 =>
              /\ ~opens[1].ok
              /\ opens[2].how = "chunk"
              /\ opens[2].pos = 0
              /\ opens[2].nonce = HeaderNonce
        /\ pc \in {"df_loop", "df_after"} => (opens # <<>> /\ ~opens[1].ok)

\* A ciphertext longer than a chunk authenticated as one block.
C23_Witness ==
    /\ entry = "decrypt_file"
    /\ pc = "done"
    /\ result = "Ok"
    /\ Len(opens) = 1
    /\ opens[1].ok
    /\ opens[1].size > FullChunk
    /\ output = BodyPlain(remaining_data)

\* The single-block attempt failed and the chunked path verified a chunk.
C23_ChunkedReached ==
    /\ Len(opens) = 2
    /\ ~opens[1].ok
    /\ opens[2].ok
    /\ opens[2].pos = 0

\* C24: the variation of the KDF cost parameters is a fallback layer of the
\* search: after every salt variation has failed each triple of the fixed
\* list is tried, in list order, on the base nonce and the first chunk, so a
\* container encrypted with a listed non-canonical triple is recovered.
C24_CostTriplesSearched ==
    (/\ entry \in {"auto_decrypt", "try_decrypt_with_variations"}
     /\ pc = "done"
     /\ WellFormed
     /\ try_algorithm_variations(self_password, self_salt,
                                 FirstChunk, HeaderNonce).ok)
    => result = "Ok"

\* One call of decrypt_file, run to completion: the code is sequential, so
\* every step that can be taken is taken.
InitFile == Init /\ entry = "decrypt_file"

NextFile ==
    \/ DfOpen \/ DfMagic \/ DfNonce \/ DfKey \/ DfSingleBlock
    \/ DfLoopExit \/ DfChunkTooSmall \/ DfChunkOk \/ DfChunkAltBE \/ DfChunkAlt64
    \/ DfChunkFailBreak \/ DfChunkFailFirst \/ DfAfterLoop \/ DfReturn

SpecLive == InitFile /\ [][NextFile]_vars /\ WF_vars(NextFile)

\* One step of the chunk loop advances the offset by at least a tag, or
\* leaves the loop; the offset stays within the ciphertext.
LoopStep ==
    pc = "df_loop" =>
        /\ pc' # "df_loop" \/ current_pos' >= current_pos + TAG_SIZE
        /\ current_pos' <= Len(remaining_data)

\* C25: the chunk loop of decrypt_file terminates for every ciphertext and
\* every pattern of authentication outcomes: each iteration advances the
\* read offset by a chunk of at least 16 bytes (the iterations that continue
\* after a rule fallback included) or leaves the loop, the offset never
\* exceeds the length of the ciphertext, and the loop is left in the end.
C25_LoopTerminates ==
    /\ [][LoopStep]_vars
    /\ [](pc = "df_loop" => current_pos <= Len(remaining_data))
    /\ (pc = "df_loop") ~> (pc # "df_loop")

\* The loop went on after a rule fallback and reached the fourth chunk.
C25_Witness ==
    /\ pc = "df_loop"
    /\ AdoptedRule # "none"
    /\ current_pos = 3 * FullChunk
    /\ current_pos < Len(remaining_data)

\* What a ciphertext of at most one chunk decrypts to under the key of
\* (d_password, d_salt), stated on the input alone.
SingleChunkOutcome ==
    IF ~MagicMatches
    THEN [result |-> "InvalidFormat", plaintext |-> <<>>]
    ELSE IF Authentic(remaining_data, HeaderNonce,
                      scrypt(d_password, d_salt, CanonicalParams))
    THEN [result |-> "Ok", plaintext |-> BodyPlain(remaining_data)]
    ELSE [result |-> "InvalidPassword", plaintext |-> <<>>]

\* C26: on every input of at least 32 bytes whose ciphertext is at most one
\* chunk long, decrypt_bytes and decrypt_file with the same password and
\* salt agree: both succeed with the same plaintext or both fail with the
\* same error kind; decrypt_bytes never attempts chunked decryption.
C26_BytesAgreesWithFile ==
    /\ (/\ entry \in {"decrypt_file", "decrypt_bytes"}
        /\ pc = "done"
        /\ HasHeader
        /\ Len(remaining_data) <= FullChunk) =>
          /\ result = SingleChunkOutcome.result
          /\ (IF entry = "decrypt_file" THEN output ELSE db_out)
                = SingleChunkOutcome.plaintext
    /\ entry = "decrypt_bytes" =>
          \A i \in 1..Len(opens) :
              /\ i = 1
              /\ opens[i].how = "bytes"
              /\ opens[i].pos = 0
              /\ opens[i].size = Len(remaining_data)
              /\ opens[i].nonce = HeaderNonce

SingleChunkDone(e, r) ==
    /\ entry = e
    /\ pc = "done"
    /\ result = r
    /\ HasHeader
    /\ Len(remaining_data) = FullChunk

C26_Witness == SingleChunkDone("decrypt_bytes", "Ok") /\ Len(db_out) = CHUNK_SIZE

C26_FileOkReached == SingleChunkDone("decrypt_file", "Ok") /\ Len(output) = CHUNK_SIZE

C26_BytesFailReached == SingleChunkDone("decrypt_bytes", "InvalidPassword")

C26_FileFailReached == SingleChunkDone("decrypt_file", "InvalidPassword")

InitNonce ==
    /\ n_rule \in NonceRules
    /\ n_base \in SampleNonces
    /\ n_prev = n_base
    /\ n_cur = n_base
    /\ n_steps = 0
    /\ entry = "none"
    /\ input = <<>>
    /\ passwords = <<>>
    /\ user_salt = <<>>
    /\ self_password = <<>>
    /\ self_salt = <<>>
    /\ d_password = <<>>
    /\ d_salt = <<>>
    /\ pc = "nonce"
    /\ result = "none"
    /\ SearchIdle
    /\ EngineIdle

StepNonce(rule) ==
    /\ n_rule = rule
    /\ n_steps < StepLimit(n_base)
    /\ n_prev' = n_cur
    /\ n_cur' = Advance(rule, n_cur)
    /\ n_steps' = n_steps + 1
    /\ UNCHANGED <<n_rule, n_base, callVars, searchVars, engineVars, pc, result>>

StepLE == StepNonce("le")
StepBE == StepNonce("be")
Step64 == StepNonce("c64")

NextNonce == StepLE \/ StepBE \/ Step64

SpecNonce == InitNonce /\ [][NextNonce]_vars

(***************************************************************************)
(* Positional arithmetic, used to state the claims about the nonce rules:  *)
(* schoolbook addition of 1 to a little-endian base-256 numeral, the carry *)
(* out of the last digit dropped.                                          *)
(***************************************************************************)
RECURSIVE CarryInto(_, _)
CarryInto(d, i) == IF i = 1 THEN 1 ELSE (d[i - 1] + CarryInto(d, i - 1)) \div 256

PlusOneLE(d) == [i \in 1..Len(d) |-> (d[i] + CarryInto(d, i)) % 256]

Reverse(s) == [i \in 1..Len(s) |-> s[Len(s) + 1 - i]]

PlusOneBE(d) == Reverse(PlusOneLE(Reverse(d)))

\* C8: increment_nonce maps every 24-byte nonce, read as a little-endian
\* integer, to that integer plus 1 modulo 2^192 (all-0xFF wraps to zero);
\* 256 increments from a nonce whose byte 0 is 0 leave byte 0 at 0 and add 1,
\* with carry, to the integer held in bytes 1..23.
C8_LittleEndianPlusOne ==
    n_rule = "le" =>
        /\ n_steps > 0 => n_cur = PlusOneLE(n_prev)
        /\ (n_steps = 256 /\ n_base[1] = 0) =>
              /\ n_cur[1] = 0
              /\ n_cur[2] = (n_base[2] + 1) % 256
              /\ Tail(n_cur) = PlusOneLE(Tail(n_base))

C8_Witness ==
    /\ n_rule = "le"
    /\ n_steps = 256
    /\ n_base[1] = 0
    /\ n_base[2] = 255
    /\ n_cur[3] = (n_base[3] + 1) % 256

\* The wrap of the all-0xFF nonce is reached as well.
C8_WrapReached ==
    /\ n_rule = "le"
    /\ n_steps = 1
    /\ \A j \in 1..24 : n_prev[j] = 255 /\ n_cur[j] = 0

\* C9: increment_nonce_be maps every 24-byte nonce, read as a big-endian
\* integer (index 23 least significant), to that integer plus 1 modulo
\* 2^192, the carry running from index 23 toward index 0.
C9_BigEndianPlusOne ==
    (n_rule = "be" /\ n_steps > 0) => n_cur = PlusOneBE(n_prev)

C9_Witness ==
    /\ n_rule = "be"
    /\ n_steps = 1
    /\ n_prev[24] = 255 /\ n_prev[23] = 255 /\ n_prev[22] # 255
    /\ n_cur[24] = 0 /\ n_cur[23] = 0 /\ n_cur[22] = n_prev[22] + 1

\* C10: increment_nonce_64bit leaves bytes 0..15 unchanged and replaces
\* bytes 16..23 by their little-endian 64-bit value plus 1 modulo 2^64; a
\* carry out of byte 23 is dropped.
C10_TrailingCounter ==
    (n_rule = "c64" /\ n_steps > 0) =>
        /\ SubSeq(n_cur, 1, 16) = SubSeq(n_prev, 1, 16)
        /\ SubSeq(n_cur, 17, 24) = PlusOneLE(SubSeq(n_prev, 17, 24))

C10_Witness ==
    /\ n_rule = "c64"
    /\ n_steps = 1
    /\ \A j \in 17..24 : n_prev[j] = 255 /\ n_cur[j] = 0
    /\ n_prev[16] = 7 /\ n_cur[16] = 7


(***************************************************************************)
(* The salt strings RcloneDecryptor::new is applied to                     *)
(***************************************************************************)
MaxSaltLen == 3
MaxSuffixLen == 4

StringsOver(alphabet, n) == UNION { [1..k -> alphabet] : k \in 0..n }

RECURSIVE Repeat(_, _)
Repeat(s, k) == IF k = 0 THEN <<>> ELSE s \o Repeat(s, k - 1)

\* Every string of a, b, c and ! up to MaxSaltLen characters.
ShortSalts == StringsOver({97, 98, 99, 33}, MaxSaltLen)

\* "0x" or "0X" followed by the characters 7, 4, F and z.
HexSalts ==
    { p \o d : p \in {<<48, 120>>, <<48, 88>>},
               d \in StringsOver({55, 52, 70, 122}, MaxSaltLen) }

\* "dGVzdHNh" (the base64 of testsa) followed by the characters b, H, Q, =.
Base64Salts ==
    { <<100, 71, 86, 122, 100, 72, 78, 104>> \o t :
        t \in StringsOver({98, 72, 81, 61}, MaxSuffixLen) }

\* "YWJj" (the base64 of abc) repeated: 8, 12, 88, 100 and 104 characters.
LongSalts == { Repeat(<<89, 87, 74, 106>>, k) : k \in {2, 3, 22, 25, 26} }

\* Strings of 88 characters: 84 of valid base64 and four of b, H, Q, =.
Salts88 ==
    { Repeat(<<89, 87, 74, 106>>, 21) \o t : t \in [1..4 -> {98, 72, 81, 61}] }

\* "0x7465737473616c74"
HexTestsalt == <<48, 120, 55, 52, 54, 53, 55, 51, 55, 52, 55, 51, 54, 49, 54, 99, 55, 52>>
\* "testsalt"
Testsalt == <<116, 101, 115, 116, 115, 97, 108, 116>>
\* "plain!salt"
PlainSalt == <<112, 108, 97, 105, 110, 33, 115, 97, 108, 116>>
\* "verylongsaltstring"
VeryLongSalt == <<118, 101, 114, 121, 108, 111, 110, 103, 115, 97, 108, 116, 115, 116, 114, 105, 110, 103>>
\* "abc"
Abc == <<97, 98, 99>>

SaltStrings ==
    ShortSalts \cup HexSalts \cup Base64Salts \cup LongSalts \cup Salts88
    \cup {HexTestsalt, Testsalt, PlainSalt, VeryLongSalt}

InitSalt ==
    /\ NonceIdle
    /\ entry = "new"
    /\ input = <<>>
    /\ passwords = <<>>
    /\ user_salt \in SaltStrings
    /\ self_password = <<>>
    /\ self_salt = <<>>
    /\ d_password = <<>>
    /\ d_salt = <<>>
    /\ pc = "new"
    /\ result = "none"
    /\ SearchIdle
    /\ EngineIdle

\* RcloneDecryptor::new(password, salt): decrypt.rs 75-101
New ==
    /\ pc = "new"
    /\ self_salt' = new(user_salt).salt
    /\ result' = new(user_salt).result
    /\ pc' = "done"
    /\ UNCHANGED <<nonceVars, callVars, self_password, pw_idx, variation,
                   auto_result, found_password, auto_calls, engineVars>>

NextSalt == New

SpecSalt == InitSalt /\ [][NextSalt]_vars

(***************************************************************************)
(* Vocabulary of the claims about the salt: the hex and the base64 text of *)
(* a byte string, written as encoders.                                     *)
(***************************************************************************)
HexPrefixed(s) == Len(s) >= 2 /\ s[1] = 48 /\ s[2] \in {120, 88}

AfterPrefix(s) == SubSeq(s, 3, Len(s))

HexDigits == (48..57) \cup (65..70) \cup (97..102)

IsHexString(s) == Len(s) % 2 = 0 /\ \A i \in 1..Len(s) : s[i] \in HexDigits

ToLower(s) == [i \in 1..Len(s) |-> IF s[i] \in 65..90 THEN s[i] + 32 ELSE s[i]]

HexDigit(v) == IF v < 10 THEN 48 + v ELSE 87 + v

\* The lower-case hex text of a byte string.
HexEncode(b) ==
    [j \in 1..(2 * Len(b)) |->
        IF j % 2 = 1 THEN HexDigit(b[(j + 1) \div 2] \div 16)
                     ELSE HexDigit(b[j \div 2] % 16)]

B64Char(v) ==
    IF v < 26 THEN 65 + v
    ELSE IF v < 52 THEN 71 + v
    ELSE IF v < 62 THEN v - 4
    ELSE IF v = 62 THEN 43 ELSE 47

\* The standard padded base64 text of a byte string.
Base64Encode(b) ==
    [j \in 1..(4 * ((Len(b) + 2) \div 3)) |->
        IF j > (8 * Len(b) + 5) \div 6
        THEN 61
        ELSE LET o == 6 * (j - 1)
                 i == (o \div 8) + 1
                 r == o % 8
                 w == b[i] * 256 + (IF i < Len(b) THEN b[i + 1] ELSE 0)
             IN  B64Char((w \div (2 ^ (10 - r))) % 64)]

Base64Alphabet == (48..57) \cup (65..90) \cup (97..122) \cup {43, 47, 61}

AlphabetOnly(s) == \A i \in 1..Len(s) : s[i] \in Base64Alphabet

\* s is the base64 text of some byte string: of the bytes its symbols spell.
ValidBase64(s) ==
    /\ AlphabetOnly(s)
    /\ LET sym == SubSeq(s, 1, Len(s) - PadLen(s))
       IN  /\ \A i \in 1..Len(sym) : sym[i] # 61
           /\ Base64Encode(SextetsToBytes([i \in 1..Len(sym) |-> B64Val(sym[i])])) = s

NewDone == entry = "new" /\ pc = "done"

C13_HexReached ==
    /\ NewDone
    /\ user_salt = HexTestsalt
    /\ self_salt = Testsalt

C13_LiteralReached ==
    /\ NewDone
    /\ user_salt = Abc
    /\ self_salt = Abc

\* The interpretation order hex, else base64, else literal bytes, base64
\* being chosen for the decodable strings of minLen..100 characters.
SaltOrder(minLen) ==
    LET base64 == /\ user_salt # <<>>
                  /\ Len(user_salt) >= minLen
                  /\ Len(user_salt) <= 100
                  /\ AlphabetOnly(user_salt)
                  /\ ValidBase64(user_salt)
    IN  /\ (HexPrefixed(user_salt) /\ result = "Ok") =>
              HexEncode(self_salt) = ToLower(AfterPrefix(user_salt))
        /\ (~HexPrefixed(user_salt) /\ base64) =>
              /\ result = "Ok"
              /\ Base64Encode(self_salt) = user_salt
        /\ (~HexPrefixed(user_salt) /\ ~base64) =>
              /\ result = "Ok"
              /\ self_salt = user_salt

\* C14 as stated: the salt is interpreted as hex (0x/0X prefix), else as
\* base64, else as literal bytes, base64 being chosen for every non-hex
\* string of at most 100 base64-alphabet characters that decodes, whatever
\* its length.
C14_Base64AnyLength == NewDone => SaltOrder(1)

\* C14 amended: the same order, base64 being chosen for the non-hex strings
\* of more than 8 and at most 100 base64-alphabet characters that decode; a
\* decodable string of 8 characters or fewer is taken as literal bytes.
C14_Base64Over8 == NewDone => SaltOrder(9)

\* A string of exactly 100 characters is decoded.
C14_Witness ==
    /\ NewDone
    /\ Len(user_salt) = 100
    /\ Base64Encode(self_salt) = user_salt
    /\ self_salt # user_salt

\* A decodable string of 8 characters is taken literally.
C14_ShortLiteralReached ==
    /\ NewDone
    /\ Len(user_salt) = 8
    /\ ValidBase64(user_salt)
    /\ self_salt = user_salt

\* A decodable string of more than 100 characters is taken literally.
C14_LongLiteralReached ==
    /\ NewDone
    /\ Len(user_salt) > 100
    /\ ValidBase64(user_salt)
    /\ self_salt = user_salt

\* A plain-text salt: one that new takes neither as hex nor as base64.
PlainTextSalt ==
    /\ user_salt # <<>>
    /\ ~HexPrefixed(user_salt)
    /\ ~(Len(user_salt) > 8 /\ Len(user_salt) <= 100 /\ ValidBase64(user_salt))

\* The first SALT_SIZE bytes of s, zero bytes added to a shorter s.
Normalised(s) == [i \in 1..SALT_SIZE |-> IF i <= Len(s) THEN s[i] ELSE 0]

\* C15: a plain-text salt is normalised to exactly 8 bytes: a longer string
\* is cut to its first 8 bytes, a shorter one is padded with zero bytes.
C15_PlainSaltIs8Bytes ==
    (NewDone /\ PlainTextSalt) =>
        /\ result = "Ok"
        /\ self_salt = Normalised(user_salt)

\* C16: a salt string that cannot be decoded under its chosen encoding never
\* makes new fail: for a 0x/0X-prefixed string of invalid hex and for a
\* base64-looking string that is invalid base64 alike, construction succeeds
\* and the salt is the literal bytes of the string.
C16_UndecodableIsLiteral ==
    NewDone =>
        /\ result = "Ok"
        /\ (HexPrefixed(user_salt) /\ ~IsHexString(AfterPrefix(user_salt))) =>
              self_salt = user_salt
        /\ (/\ ~HexPrefixed(user_salt)
            /\ AlphabetOnly(user_salt)
            /\ ~ValidBase64(user_salt)) => self_salt = user_salt

====
